---- MODULE Spec2Model ----
(***************************************************************************)
(* Model of panagram/index.py: the pan-kmer bitmap of one anchor genome.   *)
(* Build path: Genome.run_anchor packs the k-mer membership counters of    *)
(* every FASTA record into byte rows and appends them to one stream per    *)
(* stored step; read path: Genome.query maps (chromosome, start, end,      *)
(* step) to a byte range of a stream, reads it through the block index     *)
(* and unpacks it to presence bits; the occurrence tabulations count the   *)
(* bits per row.                                                           *)
(*                                                                         *)
(* Genome ids and matrix columns are 0-based as in the code (column g is   *)
(* bit g of the row).  Sequences are 1-based, so element p+1 of a          *)
(* sequence is position p of the code's array.                             *)
(***************************************************************************)
EXTENDS Integers, Sequences, FiniteSets, TLC

(* ------------------------------ bounds -------------------------------- *)
MaxChrs   == 2      \* FASTA records per genome
MaxSize   == 4      \* largest chromosome size (sequence length - k + 1)
MaxPos    == 4      \* largest coordinate passed to a query
BlockSize == 4      \* decompressed bytes held by one BGZF block
ChrBinLen == 2      \* chr_bin_kbp*1000, scaled to the model's chromosomes
MaxCalls  == 1      \* read-path calls made in one read session

(* ------------------------- program constants -------------------------- *)
ByteBits    == 8    \* bits per packed byte (nbytes = ceil(ngenomes/8))
LaneBytes   == 4    \* bytes of one uint32 counter
LaneGenomes == 32   \* genomes per KMC bit-vector database

\* an optional argument: None, or Some(v)
None == << >>
Some(v) == << v >>

(* (ngenomes, number of bit-vector databases handed to run_anchor,        *)
(* lowres_step) of the modelled indexes.  Index.run_anchor always hands   *)
(* over one database; Index.kmc_bitvec_count is ceil(ngenomes/32).        *)
Params ==
    { [ngenomes |-> 3,  ndbs |-> 1, lowres_step |-> 2],
      [ngenomes |-> 3,  ndbs |-> 1, lowres_step |-> 1],
      [ngenomes |-> 9,  ndbs |-> 1, lowres_step |-> 10],
      [ngenomes |-> 33, ndbs |-> 1, lowres_step |-> 2],
      [ngenomes |-> 33, ndbs |-> 2, lowres_step |-> 2] }

ChrSizes == (0 - 1) .. MaxSize

VARIABLES
    ngenomes,     \* Genome.ngenomes = len(samples)
    lowres_step,  \* params["lowres_step"]
    kmc_dbs,      \* len(Genome.kmc_dbs)
    kmc,          \* the k-mer membership database the bit vectors were counted from
    sizes,        \* Genome.sizes, one entry per FASTA record, in file order
    offsets,      \* Genome.offsets[chromosome][step]
    gene_df,      \* rows of the gene table: chr, start, end, histogram
    presence,     \* membership source: per written chromosome, per position, the genomes holding the k-mer
    bitmaps,      \* Genome.bitmaps while writing: step -> bytes appended so far
    bitmap_lens,  \* Genome.bitmap_lens: step -> rows appended so far
    bin_occs,     \* per written chromosome, the histograms of its bins
    pc,           \* position of the genome in its life cycle
    blocks,       \* Genome.blocks: step -> block index (after init_read)
    handle,       \* position of the decoder of each step (after init_read)
    ret,          \* outcome of the last read-path call
    gzi,          \* block index files built so far, in the order built
    calls,        \* read-path calls made since init_read
    rd,           \* concurrent readers: access mode, event log, state of each reader's query
    fds,          \* per Genome object, every file handle it opened: step, mode, open, held in self.bitmaps
    inits,        \* per Genome object, the calls of init_read made on it
    disk,         \* tables run_anchor has persisted
    pool,         \* Index.write: the anchoring of the genomes of the index
    tabix         \* per Genome object, its gene and annotation interval files

vars == << ngenomes, lowres_step, kmc_dbs, kmc, sizes, offsets, gene_df, presence,
           bitmaps, bitmap_lens, bin_occs, pc, blocks, handle, ret, gzi, calls, rd,
           fds, inits, disk, pool, tabix >>

(* ------------------------------ helpers ------------------------------- *)
RECURSIVE Pow2(_)
Pow2(n) == IF n = 0 THEN 1 ELSE 2 * Pow2(n - 1)

\* math.ceil(a / b) for b > 0 (also for negative a, as np.ceil computes it)
CeilDiv(a, b) == 0 - ((0 - a) \div b)

Min(a, b) == IF a < b THEN a ELSE b
Max(a, b) == IF a < b THEN b ELSE a

RECURSIVE SumSeq(_)
SumSeq(s) == IF s = << >> THEN 0 ELSE Head(s) + SumSeq(Tail(s))

RECURSIVE Flatten(_)
Flatten(ss) == IF ss = << >> THEN << >> ELSE Head(ss) \o Flatten(Tail(ss))

\* arr[::s]
Slice(arr, s) == [i \in 1 .. CeilDiv(Len(arr), s) |-> arr[(i - 1) * s + 1]]

\* arr[a:b] for 0 <= a (python clamps the slice to the array)
Range(arr, a, b) ==
    LET hi == Min(b, Len(arr))
    IN  IF hi <= a THEN << >> ELSE [i \in 1 .. (hi - a) |-> arr[a + i]]

(* ----------------------------- Genome --------------------------------- *)
\* Genome.__init__: nbytes = int(np.ceil(ngenomes / 8))
nbytes == CeilDiv(ngenomes, ByteBits)

\* Genome._init_steps: steps = [1, lowres_step]
steps == << 1, lowres_step >>

\* keys of the dicts built with {s : ... for s in self.steps}
StepKeys == { steps[i] : i \in 1 .. Len(steps) }

\* Genome.set_chrs: offsets = ceil(sizes/step).cumsum().shift(fill_value=0)
set_chrs(chrs, stepseq) ==
    [c \in 1 .. Len(chrs) |->
        [s \in { stepseq[i] : i \in 1 .. Len(stepseq) } |->
            SumSeq([i \in 1 .. (c - 1) |-> CeilDiv(chrs[i], s)])]]

\* Genome.seq_len
seq_len(name) == sizes[name]

(* --------------------------- Bit Packer ------------------------------- *)
\* KMC GetCountersForRead on database db_i: one uint32 per k-mer start of
\* the record; bit b of the counter is genome 32*db_i + b
CountVec(db_i, seq) ==
    [p \in 1 .. Len(seq) |->
        { g - LaneGenomes * db_i :
            g \in { x \in seq[p] : x \div LaneGenomes = db_i } }]

\* pac32.view("uint8"): byte j (0-based, little endian) of a counter
ByteOf(bits, j) ==
    LET f[i \in 0 .. ByteBits] ==
            IF i = ByteBits THEN 0
            ELSE (IF (ByteBits * j + i) \in bits THEN Pow2(i) ELSE 0) + f[i + 1]
    IN  f[0]

\* Genome._query_kmc_bytes: the first n bytes of every counter
query_kmc_bytes(db_i, seq) ==
    LET n == IF nbytes <= LaneBytes THEN nbytes
             ELSE IF db_i = kmc_dbs /\ nbytes % LaneBytes > 0
                  THEN nbytes % LaneBytes
                  ELSE LaneBytes
        vec == CountVec(db_i, seq)
    IN  [p \in 1 .. Len(vec) |-> [j \in 1 .. n |-> ByteOf(vec[p], j - 1)]]

\* Genome._write_bitmap, first loop: byte_arrs[s] gets pacbytes[::s] once
\* for every database and every occurrence of s in self.steps
byte_arrs(s, seq) ==
    LET occ == { i \in 1 .. Len(steps) : steps[i] = s }
        m   == Cardinality(occ)
    IN  [e \in 1 .. (kmc_dbs * m) |->
            Slice(query_kmc_bytes((e - 1) \div m, seq), s)]

\* Genome._write_bitmap, second loop: np.concatenate(arr, axis=1)
arrs(s, seq) ==
    LET arr == byte_arrs(s, seq)
    IN  [r \in 1 .. Len(arr[1]) |->
            Flatten([e \in 1 .. Len(arr) |-> arr[e][r]])]

\* the unpacked columns in reverse genome order
UnpackRow_reversed(row) ==
    LET n == Min(ngenomes, ByteBits * Len(row))
    IN  [c \in 1 .. n |->
            (row[((n - c) \div ByteBits) + 1] \div Pow2((n - c) % ByteBits)) % 2]

\* np.unpackbits(row, bitorder="little")[:ngenomes] of one row
UnpackRow(row) ==
    [c \in 1 .. Min(ngenomes, ByteBits * Len(row)) |->
        (row[((c - 1) \div ByteBits) + 1] \div Pow2((c - 1) % ByteBits)) % 2]

\* Genome._bytes_to_bits
bytes_to_bits(pac) == [r \in 1 .. Len(pac) |-> UnpackRow(pac[r])]

\* matrix.sum(axis=1)
bitsum_of(bits) == [r \in 1 .. Len(bits) |-> SumSeq(bits[r])]

(* --------------------------- tabulations ------------------------------ *)
\* number of entries of occs equal to k
CountOf(occs, k) == Cardinality({ i \in 1 .. Len(occs) : occs[i] = k })

\* np.unique(occs): the distinct values
Unique(occs) == { occs[i] : i \in 1 .. Len(occs) }

\* pd.value_counts(occs).reindex(cols), cols = 1..ngenomes (run_anchor bins)
bin_counts(occs) == [k \in 1 .. ngenomes |-> CountOf(occs, k)]

(* ----------------------------- file handles --------------------------- *)
\* self.bitmaps = {s : <open the stream of s> for s in self.steps}: one
\* handle is opened for every entry of steps; the dict keeps the last one
\* opened for a step, and the handles self.bitmaps held before are dropped
\* without being closed
open_bitmaps(hs, mode) ==
    [i \in 1 .. Len(hs) |-> [hs[i] EXCEPT !.held = FALSE]] \o
    [i \in 1 .. Len(steps) |->
        [step |-> steps[i], mode |-> mode, open |-> TRUE,
         held |-> \A j \in (i + 1) .. Len(steps) : steps[j] # steps[i]]]

\* Genome.close: for f in self.bitmaps.values(): f.close()
close_bitmaps(hs) ==
    [i \in 1 .. Len(hs) |->
        IF hs[i].held THEN [hs[i] EXCEPT !.open = FALSE] ELSE hs[i]]

\* the tables Genome.run_anchor persists after the FASTA loop, in order
AnchorTables == << "gene", "chr_genes", "bins", "chrs" >>

(* ------------------------------- Init --------------------------------- *)
\* k-mer membership databases the index is built from: the genomes that
\* hold the k-mer starting at position p (0-based) of chromosome c
Sources == { "rot", "low", "alt" }

\* the membership of a three-genome database over a record of five
\* positions: all, the first two, the first, the last two, all
ScenarioRows == << { 0, 1, 2 }, { 0, 1 }, { 0 }, { 1, 2 }, { 0, 1, 2 } >>

Membership(src, g, c, p) ==
    CASE src = "scn" -> ScenarioRows[(p % Len(ScenarioRows)) + 1]
      [] src = "rot" -> { (g * (c + p) - c - p) % g }
      [] src = "low" -> 0 .. ((c + p - 1) % g)
      [] src = "alt" -> IF p % 2 = 1 THEN {}
                        ELSE IF c % 2 = 1 THEN 0 .. (g - 1) ELSE {0}

\* gene tables read from the GFF (init_gff sorts by chr, start)
GffTables ==
    { << [chr |-> 1, start |-> 0, end |-> 1],
         [chr |-> 2, start |-> 0, end |-> 1] >>,
      << [chr |-> 1, start |-> 1, end |-> 2],
         [chr |-> 1, start |-> 1, end |-> 3],
         [chr |-> 2, start |-> 1, end |-> 3] >>,
      << [chr |-> 1, start |-> 0, end |-> 2] >> }

NoRet == [op |-> "none"]

Init ==
    \E p \in Params, n \in 1 .. MaxChrs, src \in Sources :
      \E chrs \in [1 .. n -> ChrSizes] :
        /\ ngenomes = p.ngenomes
        /\ lowres_step = p.lowres_step
        /\ kmc_dbs = p.ndbs
        /\ kmc = src
        /\ sizes = chrs
        /\ offsets = set_chrs(chrs, << 1, p.lowres_step >>)
        /\ gene_df = << >>
        /\ presence = << >>
        /\ bitmaps = << >>
        /\ bitmap_lens = [s \in { 1, p.lowres_step } |-> 0]
        /\ bin_occs = << >>
        /\ pc = "new"
        /\ blocks = << >>
        /\ handle = << >>
        /\ ret = NoRet
        /\ gzi = << >>
        /\ calls = 0
        /\ rd = << >>
        /\ fds = << << >> >>
        /\ inits = << 0 >>
        /\ disk = << >>
        /\ pool = << >>
        /\ tabix = << >>

(* ----------------------------- build path ----------------------------- *)
\* Genome.run_anchor up to the FASTA loop: init_gff, open the writers
RunAnchorBegin ==
    /\ pc = "new"
    /\ \/ \* pd.isna(self.gff): init_gff returns None, gene_df.groupby raises
          /\ pc' = "failed"
          /\ UNCHANGED << gene_df, bitmaps, fds >>
       \/ \E gff \in GffTables :
            /\ gene_df' = [g \in 1 .. Len(gff) |->
                  [chr |-> gff[g].chr, start |-> gff[g].start,
                   end |-> gff[g].end, hist |-> [k \in 1 .. ngenomes |-> 0]]]
            /\ bitmaps' = [s \in StepKeys |-> << >>]
            /\ fds' = [fds EXCEPT ![1] = open_bitmaps(@, "w")]
            /\ pc' = "fasta"
    /\ UNCHANGED << ngenomes, lowres_step, kmc_dbs, kmc, sizes, offsets, presence,
                    bitmap_lens, bin_occs, blocks, handle, ret, gzi, calls, rd,
                    inits, disk, pool, tabix >>

\* genes of a chromosome: chr_genes[name]
chr_genes(name) == { g \in 1 .. Len(gene_df) : gene_df[g].chr = name }

\* gene_df.loc[g, o] += counts for the genes of `name`
GeneUpdate(name, bitsum) ==
    [g \in 1 .. Len(gene_df) |->
        IF gene_df[g].chr = name
        THEN [gene_df[g] EXCEPT !.hist =
                [k \in 1 .. ngenomes |->
                    @[k] + CountOf(Range(bitsum, gene_df[g].start, gene_df[g].end), k)]]
        ELSE gene_df[g]]

\* the tabulation of the genes of `name` raises KeyError: no gene on the
\* chromosome (chr_genes[name]) or a count that is no column (gene_df.loc[g,o])
GeneRaises(name, bitsum) ==
    \/ chr_genes(name) = {}
    \/ \E g \in chr_genes(name) :
           0 \in Unique(Range(bitsum, gene_df[g].start, gene_df[g].end))

\* bins of one chromosome: starts = arange(0, len(bitsum), binlen)
BinsOf(bitsum) ==
    [b \in 1 .. CeilDiv(Len(bitsum), ChrBinLen) |->
        bin_counts(Range(bitsum, (b - 1) * ChrBinLen, b * ChrBinLen))]

\* one iteration of the FASTA loop of Genome.run_anchor: _write_bitmap,
\* then the per-gene and per-bin tabulation
WriteChrom ==
    /\ pc = "fasta"
    /\ Len(presence) < Len(sizes)
    /\ LET name == Len(presence) + 1
           seq  == [p \in 1 .. Max(sizes[name], 0) |->
                       Membership(kmc, ngenomes, name, p - 1)]
           bitsum == bitsum_of(bytes_to_bits(arrs(1, seq)))
       IN  /\ presence' = Append(presence, seq)
           /\ bitmaps' = [s \in StepKeys |->
                             bitmaps[s] \o Flatten(arrs(s, seq))]
           /\ bitmap_lens' = [s \in StepKeys |->
                             bitmap_lens[s] + Len(arrs(s, seq))]
           /\ IF GeneRaises(name, bitsum)
              THEN /\ pc' = "failed"
                   /\ UNCHANGED << gene_df, bin_occs >>
              ELSE /\ gene_df' = GeneUpdate(name, bitsum)
                   /\ bin_occs' = Append(bin_occs, BinsOf(bitsum))
                   /\ pc' = "fasta"
    /\ UNCHANGED << ngenomes, lowres_step, kmc_dbs, kmc, sizes, offsets,
                    blocks, handle, ret, gzi, calls, rd,
                    fds, inits, disk, pool, tabix >>

\* Genome.run_anchor after the loop: the gene and bin tables and the
\* chromosome table are persisted, then Genome.close closes the writers
RunAnchorClose ==
    /\ pc = "fasta"
    /\ Len(presence) = Len(sizes)
    /\ disk' = disk \o AnchorTables
    /\ fds' = [fds EXCEPT ![1] = close_bitmaps(@)]
    /\ pc' = "closed"
    /\ UNCHANGED << ngenomes, lowres_step, kmc_dbs, kmc, sizes, offsets, gene_df,
                    presence, bitmaps, bitmap_lens, bin_occs, blocks, handle,
                    ret, gzi, calls, rd, inits, pool, tabix >>

(* --------------------------- block index ------------------------------ *)
\* compressed offset of the i-th BGZF block (0-based) of a stream: blocks
\* follow each other, each longer than nothing
RawStart(i) == i * (BlockSize + 2)

\* BGZF layout of a closed stream: data blocks of BlockSize decompressed
\* bytes (the last one shorter), then the empty end-of-file block
FileBlocks(stream) ==
    LET total == Len(stream)
        nb    == CeilDiv(total, BlockSize)
    IN  [i \in 1 .. (nb + 1) |->
            [rstart |-> RawStart(i - 1),
             dstart |-> Min((i - 1) * BlockSize, total),
             len    |-> Min(BlockSize, total - Min((i - 1) * BlockSize, total))]]

\* `bgzip -rI`: the index file lists every block but the first
GziOf(stream) ==
    LET fb == FileBlocks(stream)
    IN  [i \in 1 .. (Len(fb) - 1) |->
            [rstart |-> fb[i + 1].rstart, dstart |-> fb[i + 1].dstart]]

\* Genome.load_bgz_blocks: a zero entry, then the pairs of the index file
load_bgz_blocks(gz) == << [rstart |-> 0, dstart |-> 0] >> \o gz

\* the index of the next step built while the FASTA loop still runs
BuildIndex_early ==
    /\ pc \in { "fasta", "closed" }
    /\ Len(gzi) < Len(steps)
    /\ LET s == steps[Len(gzi) + 1]
       IN  gzi' = Append(gzi, [step |-> s, idx |-> GziOf(bitmaps[s])])
    /\ UNCHANGED << ngenomes, lowres_step, kmc_dbs, kmc, sizes, offsets, gene_df,
                    presence, bitmaps, bitmap_lens, bin_occs, pc, blocks,
                    handle, ret, calls, rd, fds, inits, disk, pool, tabix >>

\* Genome.run_anchor, last loop: the index of the next step is built
BuildIndex ==
    /\ pc = "closed"
    /\ Len(gzi) < Len(steps)
    /\ LET s == steps[Len(gzi) + 1]
       IN  gzi' = Append(gzi, [step |-> s, idx |-> GziOf(bitmaps[s])])
    /\ UNCHANGED << ngenomes, lowres_step, kmc_dbs, kmc, sizes, offsets, gene_df,
                    presence, bitmaps, bitmap_lens, bin_occs, pc, blocks,
                    handle, ret, calls, rd, fds, inits, disk, pool, tabix >>

\* the index file of step s (the last one written under that name)
IdxFile(s) ==
    LET w == { i \in 1 .. Len(gzi) : gzi[i].step = s }
    IN  gzi[CHOOSE i \in w : \A j \in w : j <= i].idx

\* Genome.init_read: load the block indexes, open one decoder per step
InitRead ==
    /\ pc = "closed"
    /\ Len(gzi) = Len(steps)
    /\ blocks' = [s \in StepKeys |-> load_bgz_blocks(IdxFile(s))]
    /\ handle' = [s \in StepKeys |-> 0]
    /\ fds' = [fds EXCEPT ![1] = open_bitmaps(@, "r")]
    /\ inits' = [inits EXCEPT ![1] = @ + 1]
    /\ pc' = "read"
    /\ UNCHANGED << ngenomes, lowres_step, kmc_dbs, kmc, sizes, offsets, gene_df,
                    presence, bitmaps, bitmap_lens, bin_occs, gzi, ret, rd,
                    disk, pool, tabix >>
    /\ calls' = 0

(* ----------------------------- read path ------------------------------ *)
\* query_bstep with the operands of % exchanged
query_bstep_swapped(step) ==
    LET f[i \in 0 .. Len(steps)] ==
            IF i = 0 THEN 1
            ELSE IF steps[i] % step = 0 THEN Max(f[i - 1], steps[i])
                 ELSE f[i - 1]
    IN  f[Len(steps)]

\* Genome.query, first loop: the stored step the request is read from
query_bstep(step) ==
    LET f[i \in 0 .. Len(steps)] ==
            IF i = 0 THEN 1
            ELSE IF step % steps[i] = 0 THEN Max(f[i - 1], steps[i])
                 ELSE f[i - 1]
    IN  f[Len(steps)]

\* Genome._query_bytes: byte_start
byte_start(name, start, bstep) ==
    nbytes * (offsets[name][bstep] + (start \div bstep))

\* Genome._query_bytes: length
row_length(start, end, bstep) == (end - start) \div bstep

\* np.searchsorted(dstart, b, side="left") - 1
searchsorted_left(blks, b) ==
    Cardinality({ i \in 1 .. Len(blks) : blks[i].dstart < b }) - 1

\* np.searchsorted(dstart, b, side="right") - 1
searchsorted(blks, b) ==
    Cardinality({ i \in 1 .. Len(blks) : blks[i].dstart <= b }) - 1

\* blks[i] for a python index i (a negative one counts from the end)
PyAt(blks, i) == IF i < 0 THEN blks[Len(blks) + i + 1] ELSE blks[i + 1]

\* Genome._query_bytes: the block and the offset in it the decoder seeks to
seek_target(name, start, bstep) ==
    LET b   == byte_start(name, start, bstep)
        blk == searchsorted(blocks[bstep], b)
    IN  [blk_start |-> PyAt(blocks[bstep], blk).rstart,
         blk_offs  |-> b - PyAt(blocks[bstep], blk).dstart]

\* bgzf.make_virtual_offset and BgzfReader.seek: the decoder loads the
\* block at blk_start and refuses an offset outside it; ok is FALSE when
\* either raises ValueError, else pos is the decompressed position reached
bgzf_seek(stream, t) ==
    LET fb  == FileBlocks(stream)
        hit == { i \in 1 .. Len(fb) : fb[i].rstart = t.blk_start }
    IN  IF t.blk_offs < 0 \/ hit = {} THEN [ok |-> FALSE, pos |-> 0]
        ELSE LET b == fb[CHOOSE i \in hit : TRUE]
             IN  IF t.blk_offs > b.len THEN [ok |-> FALSE, pos |-> 0]
                 ELSE [ok |-> TRUE, pos |-> b.dstart + t.blk_offs]

\* BgzfReader.read(size): NotImplementedError for a negative size, else
\* the bytes from the decoder's position, cut at the end of the stream
bgzf_read(stream, pos, size) ==
    IF size < 0 THEN [ok |-> FALSE, buf |-> << >>]
    ELSE [ok |-> TRUE, buf |-> Range(stream, pos, pos + size)]

\* Genome._query_bytes after the read: reshape to rows of nbytes (raises
\* when the buffer is no whole number of rows), then pac[::step]
decode(buf, sub) ==
    IF Len(buf) % nbytes # 0 THEN [ok |-> FALSE, raw |-> << >>, pac |-> << >>]
    ELSE LET raw == [r \in 1 .. (Len(buf) \div nbytes) |->
                        [j \in 1 .. nbytes |-> buf[(r - 1) * nbytes + j]]]
         IN  [ok |-> TRUE, raw |-> raw,
              pac |-> IF sub > 1 THEN Slice(raw, sub) ELSE raw]

\* Genome._query_bytes: seek the decoder of bstep, read length rows, cut
\* them into rows and keep every (step // bstep)-th.  h is the position
\* the decoder is at before the call, pos the one it is left at
query_bytes(h, name, start, end, step, bstep) ==
    LET sk  == bgzf_seek(bitmaps[bstep], seek_target(name, start, bstep))
        got == bgzf_read(bitmaps[bstep], sk.pos,
                         row_length(start, end, bstep) * nbytes)
        dc  == decode(got.buf, step \div bstep)
        ok  == sk.ok /\ got.ok /\ dc.ok
    IN  [ok  |-> ok,
         pos |-> IF ~sk.ok THEN h
                 ELSE IF ~got.ok THEN sk.pos
                 ELSE sk.pos + Len(got.buf),
         raw |-> IF ok THEN dc.raw ELSE << >>,
         pac |-> IF ok THEN dc.pac ELSE << >>]

\* Genome.query: pick bstep, default start and end, _query_bytes, then
\* _bytes_to_bits
query(name, start0, end0, step) ==
    LET bstep == query_bstep(step)
        start == IF start0 = None THEN 0 ELSE start0[1]
        end   == IF end0 = None THEN seq_len(name) ELSE end0[1]
        qb    == query_bytes(handle[bstep], name, start, end, step, bstep)
    IN  [ok    |-> qb.ok,
         bstep |-> bstep,
         pos   |-> qb.pos,
         raw   |-> qb.raw,
         val   |-> bytes_to_bits(qb.pac)]

\* Genome.bitsum_count: pd.Series(occs).value_counts()
bitsum_count(occs) == [k \in Unique(occs) |-> CountOf(occs, k)]

\* Index.bitsum_count: ret = zeros(ngenomes); ret[occs-1] = counts, the
\* values of np.unique ascending; index -1 is the last entry and a
\* repeated index keeps the last value assigned
index_bitsum_count(occs) ==
    LET at(v) == IF v = 0 THEN ngenomes ELSE v
        f[v \in (0 - 1) .. ngenomes] ==
            IF v < 0 THEN [k \in 1 .. ngenomes |-> 0]
            ELSE IF v \in Unique(occs)
                 THEN [f[v - 1] EXCEPT ![at(v)] = CountOf(occs, v)]
                 ELSE f[v - 1]
    IN  f[ngenomes]

QueryStarts == { None } \cup { Some(v) : v \in 0 .. MaxPos }
QueryEnds   == { None } \cup { Some(v) : v \in 0 .. MaxPos }
QuerySteps  == { 1, 2, 3, 10 }
OccSteps    == { 1 }

ReadFrame == << ngenomes, lowres_step, kmc_dbs, kmc, sizes, offsets, gene_df,
                presence, bitmaps, bitmap_lens, bin_occs, pc, blocks, gzi,
                fds, inits, disk, pool, tabix >>

\* Genome.query (Index.query_bitmap)
Query ==
    /\ pc = "read"
    /\ ret = NoRet
    /\ calls < MaxCalls
    /\ calls' = calls + 1
    /\ \E name \in 1 .. Len(sizes), start \in QueryStarts,
          end \in QueryEnds, step \in QuerySteps :
         LET q == query(name, start, end, step)
         IN  /\ handle' = [handle EXCEPT ![q.bstep] = q.pos]
             /\ ret' = [op |-> "query", name |-> name, start |-> start,
                        end |-> end, step |-> step, ok |-> q.ok,
                        bstep |-> q.bstep, raw |-> q.raw, val |-> q.val]
    /\ UNCHANGED << ReadFrame, rd >>

\* Genome.query_occ_counts (Index.query_occ_counts)
QueryOccCounts ==
    /\ pc = "read"
    /\ ret = NoRet
    /\ calls < MaxCalls
    /\ calls' = calls + 1
    /\ \E name \in 1 .. Len(sizes), start \in QueryStarts,
          end \in QueryEnds, step \in OccSteps :
         LET q == query(name, start, end, step)
         IN  /\ handle' = [handle EXCEPT ![q.bstep] = q.pos]
             /\ ret' = [op |-> "query_occ_counts", name |-> name,
                        start |-> start, end |-> end, step |-> step,
                        ok |-> q.ok,
                        val |-> IF q.ok THEN bitsum_count(bitsum_of(q.val))
                                ELSE << >>]
    /\ UNCHANGED << ReadFrame, rd >>

\* Index.write, chromosome summaries: Index.bitsum_count of the whole
\* chromosome at step 1 (chromosomes of size 0 are skipped)
ChrCounts ==
    /\ pc = "read"
    /\ ret = NoRet
    /\ calls < MaxCalls
    /\ calls' = calls + 1
    /\ \E name \in 1 .. Len(sizes) :
         /\ sizes[name] # 0
         /\ LET q == query(name, Some(0), Some(sizes[name]), 1)
            IN  /\ handle' = [handle EXCEPT ![q.bstep] = q.pos]
                /\ ret' = [op |-> "chr_counts", name |-> name, ok |-> q.ok,
                           val |-> IF q.ok
                                   THEN index_bitsum_count(bitsum_of(q.val))
                                   ELSE << >>]
    /\ UNCHANGED << ReadFrame, rd >>

\* the call returns: its caller takes the outcome
Return ==
    /\ pc = "read"
    /\ ret # NoRet
    /\ ret' = NoRet
    /\ UNCHANGED << ReadFrame, handle, calls, rd >>

\* Genome.close in read mode
Close ==
    /\ pc = "read"
    /\ ret = NoRet
    /\ fds' = [fds EXCEPT ![1] = close_bitmaps(@)]
    /\ pc' = "released"
    /\ UNCHANGED << ngenomes, lowres_step, kmc_dbs, kmc, sizes, offsets, gene_df,
                    presence, bitmaps, bitmap_lens, bin_occs, blocks, gzi,
                    handle, ret, calls, rd, inits, disk, pool, tabix >>

Next ==
    \/ RunAnchorBegin
    \/ WriteChrom
    \/ RunAnchorClose
    \/ BuildIndex
    \/ InitRead
    \/ Query
    \/ QueryOccCounts
    \/ ChrCounts
    \/ Return
    \/ Close

Spec == Init /\ [][Next]_vars

(* ------------------------- a three-genome index ----------------------- *)
\* an index of three genomes over one record of five positions, anchored
\* with a low-resolution step above 1 (100 is the default of Index)
ScenarioSteps == { 2, 100 }

InitScenario ==
    \E l \in ScenarioSteps :
        /\ ngenomes = 3
        /\ lowres_step = l
        /\ kmc_dbs = 1
        /\ kmc = "scn"
        /\ sizes = << Len(ScenarioRows) >>
        /\ offsets = set_chrs(<< Len(ScenarioRows) >>, << 1, l >>)
        /\ gene_df = << >>
        /\ presence = << >>
        /\ bitmaps = << >>
        /\ bitmap_lens = [s \in { 1, l } |-> 0]
        /\ bin_occs = << >>
        /\ pc = "new"
        /\ blocks = << >>
        /\ handle = << >>
        /\ ret = NoRet
        /\ gzi = << >>
        /\ calls = 0
        /\ rd = << >>
        /\ fds = << << >> >>
        /\ inits = << 0 >>
        /\ disk = << >>
        /\ pool = << >>
        /\ tabix = << >>

SpecScenario == InitScenario /\ [][Next]_vars

(* ------------------------- concurrent readers ------------------------- *)
(* Two readers query one opened genome.  Genome._query_bytes is a seek of *)
(* the decoder of bstep followed by a read from it; the two are separate  *)
(* calls, so another reader can run between them.  rd.mode is how the     *)
(* readers reach the decoders: "shared" (the decoders of the one Genome,  *)
(* no lock), "serial" (the same decoders, seek and read of one query      *)
(* under a lock) or "own" (every reader opened decoders of its own).      *)
Readers == { 1, 2 }
Modes   == { "shared", "serial", "own" }

SharedSizes  == { 2, 3 }
ReaderStarts == { 0, 1 }
ReaderEnds   == { None, Some(2) }
ReaderSteps  == { 1, 2 }

Idle == [stage |-> "idle", name |-> 0, start |-> 0, end |-> 0, step |-> 0,
         bstep |-> 0, sought |-> 0, from |-> 0, ok |-> FALSE,
         raw |-> << >>, val |-> << >>]

InitShared ==
    \E n \in 1 .. MaxChrs, m \in Modes :
      \E chrs \in [1 .. n -> SharedSizes] :
        /\ ngenomes = 3
        /\ lowres_step = 2
        /\ kmc_dbs = 1
        /\ kmc = "rot"
        /\ sizes = chrs
        /\ offsets = set_chrs(chrs, << 1, 2 >>)
        /\ gene_df = << >>
        /\ presence = << >>
        /\ bitmaps = << >>
        /\ bitmap_lens = [s \in { 1, 2 } |-> 0]
        /\ bin_occs = << >>
        /\ pc = "new"
        /\ blocks = << >>
        /\ handle = << >>
        /\ ret = NoRet
        /\ gzi = << >>
        /\ calls = 0
        /\ rd = [mode |-> m, log |-> << >>, q |-> [r \in Readers |-> Idle]]
        /\ fds = << << >> >>
        /\ inits = << 0 >>
        /\ disk = << >>
        /\ pool = << >>
        /\ tabix = << >>

\* reader_pos with every reader on the shared decoder
reader_pos_shared(r, b) == handle[b]

\* the decoder position reader r reads step b from: the one its own seek
\* left on a decoder of its own, else the position of the shared decoder
reader_pos(r, b) == IF rd.mode = "own" THEN rd.q[r].sought ELSE handle[b]

\* Genome.query up to the seek of Genome._query_bytes, run by reader r
ReaderSeek(r) ==
    /\ pc = "read"
    /\ rd.q[r].stage = "idle"
    /\ rd.mode = "serial" => \A o \in Readers : rd.q[o].stage # "sought"
    /\ \E name \in 1 .. Len(sizes), start \in ReaderStarts,
          end0 \in ReaderEnds, step \in ReaderSteps :
         LET bstep == query_bstep(step)
             end   == IF end0 = None THEN seq_len(name) ELSE end0[1]
             sk    == bgzf_seek(bitmaps[bstep], seek_target(name, start, bstep))
             me    == [Idle EXCEPT !.name = name, !.start = start, !.end = end,
                                   !.step = step, !.bstep = bstep]
         IN  /\ handle' = IF sk.ok /\ rd.mode # "own"
                          THEN [handle EXCEPT ![bstep] = sk.pos]
                          ELSE handle
             /\ rd' = [rd EXCEPT
                         !.log = Append(@, [ev |-> "seek", r |-> r,
                                            b |-> bstep, ok |-> sk.ok]),
                         !.q[r] = IF sk.ok
                                  THEN [me EXCEPT !.stage = "sought",
                                                  !.sought = sk.pos]
                                  ELSE [me EXCEPT !.stage = "done"]]
    /\ UNCHANGED << ReadFrame, ret, calls >>

\* Genome._query_bytes from the read on, and _bytes_to_bits, run by reader r
ReaderRead(r) ==
    /\ pc = "read"
    /\ rd.q[r].stage = "sought"
    /\ LET me   == rd.q[r]
           from == reader_pos(r, me.bstep)
           got  == bgzf_read(bitmaps[me.bstep], from,
                             row_length(me.start, me.end, me.bstep) * nbytes)
           dc   == decode(got.buf, me.step \div me.bstep)
           ok   == got.ok /\ dc.ok
       IN  /\ handle' = IF got.ok /\ rd.mode # "own"
                        THEN [handle EXCEPT ![me.bstep] = from + Len(got.buf)]
                        ELSE handle
           /\ rd' = [rd EXCEPT
                       !.log = Append(@, [ev |-> "read", r |-> r,
                                          b |-> me.bstep, ok |-> ok]),
                       !.q[r] = [me EXCEPT
                                   !.stage = "done", !.from = from, !.ok = ok,
                                   !.raw = IF ok THEN dc.raw ELSE << >>,
                                   !.val = IF ok THEN bytes_to_bits(dc.pac)
                                           ELSE << >>]]
    /\ UNCHANGED << ReadFrame, ret, calls >>

NextShared ==
    \/ RunAnchorBegin
    \/ WriteChrom
    \/ RunAnchorClose
    \/ BuildIndex
    \/ InitRead
    \/ \E r \in Readers : ReaderSeek(r)
    \/ \E r \in Readers : ReaderRead(r)

SpecShared == InitShared /\ [][NextShared]_vars

(* --------------------------- read session ----------------------------- *)
(* An Index opened in read mode over an index directory in which every   *)
(* sample is an anchor genome: Index.__post_init__ builds one Genome per *)
(* sample, then Index._init_read runs; Index.close ends the session.     *)
(* Genome objects are numbered in sample order.                          *)
MaxGenomes == 2     \* samples of the index opened for reading

Genomes == 1 .. ngenomes

\* gene.bed.bgz and anno.bed.bgz of an anchor directory: rows (chr, start,
\* end) sorted by chr and start, as init_gff and run_anchor write them
GeneBed == << [chr |-> 1, start |-> 1, end |-> 2],
              [chr |-> 1, start |-> 4, end |-> 6],
              [chr |-> 2, start |-> 2, end |-> 3] >>
AnnoBed == << [chr |-> 1, start |-> 3, end |-> 3] >>

\* interval files that can be present in the anchor directory of a genome
TabixFiles ==
    { [gene |-> Some(GeneBed), anno |-> Some(AnnoBed)],
      [gene |-> Some(GeneBed), anno |-> None],
      [gene |-> None, anno |-> None] }

InitSession ==
    \E n \in 1 .. MaxGenomes, l \in { 1, 2 }, tbx \in TabixFiles :
        /\ ngenomes = n
        /\ lowres_step = l
        /\ kmc_dbs = 1
        /\ kmc = "rot"
        /\ sizes = << >>
        /\ offsets = << >>
        /\ gene_df = << >>
        /\ presence = << >>
        /\ bitmaps = << >>
        /\ bitmap_lens = << >>
        /\ bin_occs = << >>
        /\ pc = "stored"
        /\ blocks = << >>
        /\ handle = << >>
        /\ ret = NoRet
        /\ gzi = << >>
        /\ calls = 0
        /\ rd = << >>
        /\ fds = [g \in 1 .. n |-> << >>]
        /\ inits = [g \in 1 .. n |-> 0]
        /\ disk = << >>
        /\ pool = << >>
        /\ tabix = [g \in 1 .. n |-> IF g = 1 THEN tbx
                                      ELSE [gene |-> Some(GeneBed), anno |-> None]]

SessionFrame == << ngenomes, lowres_step, kmc_dbs, kmc, sizes, offsets, gene_df,
                   presence, bitmaps, bitmap_lens, bin_occs, blocks, handle,
                   gzi, calls, rd, disk, pool >>

\* Index.__post_init__ with mode "r": Genome.__init__ of every sample calls
\* init_read (write_mode is False), then Index._init_read calls init_read
\* of every anchor genome
OpenIndex ==
    /\ pc = "stored"
    /\ fds' = [g \in Genomes |-> open_bitmaps(open_bitmaps(fds[g], "r"), "r")]
    /\ inits' = [g \in Genomes |-> inits[g] + 2]
    /\ pc' = "serving"
    /\ UNCHANGED << SessionFrame, ret, tabix >>

\* the runtime finalizes the handles of a genome that nothing refers to
\* any more: when, and whether before the process ends, is up to the
\* interpreter
Reclaim ==
    /\ \E g \in Genomes :
         /\ \E i \in 1 .. Len(fds[g]) : fds[g][i].open /\ ~fds[g][i].held
         /\ fds' = [fds EXCEPT ![g] =
                       [i \in 1 .. Len(fds[g]) |->
                           IF fds[g][i].held THEN fds[g][i]
                           ELSE [fds[g][i] EXCEPT !.open = FALSE]]]
    /\ UNCHANGED << SessionFrame, pc, ret, inits, tabix >>

\* contigs of an interval file
contigs(tbl) == { tbl[i].chr : i \in 1 .. Len(tbl) }

\* pysam TabixFile.fetch(chrom, start, end) on a file indexed with 1-based
\* start and end columns: ValueError for a negative or reversed range and
\* for a contig the index does not know, nothing for an empty range, else
\* the rows that overlap positions start+1 .. end
tabix_fetch(tbl, chrom, start, end) ==
    IF end < 0 \/ start < 0 \/ start > end
    THEN [exc |-> "ValueError", rows |-> << >>]
    ELSE IF start = end THEN [exc |-> "none", rows |-> << >>]
    ELSE IF chrom \notin contigs(tbl)
    THEN [exc |-> "ValueError", rows |-> << >>]
    ELSE [exc |-> "none",
          rows |-> SelectSeq(tbl, LAMBDA r : /\ r.chr = chrom
                                             /\ r.start <= end
                                             /\ r.end > start)]

\* query_rows that lets the ValueError of fetch through
query_rows_uncaught(file, chrom, start, end) ==
    IF file = None THEN [ok |-> TRUE, rows |-> << >>]
    ELSE LET f == tabix_fetch(file[1], chrom, start, end)
         IN  [ok |-> f.exc = "none", rows |-> f.rows]

\* Genome.query_genes and Genome.query_anno: an empty frame when no file
\* was loaded, else the rows fetched, none if fetch raises ValueError
query_rows(file, chrom, start, end) ==
    IF file = None THEN [ok |-> TRUE, rows |-> << >>]
    ELSE LET f == tabix_fetch(file[1], chrom, start, end)
         IN  IF f.exc = "ValueError" THEN [ok |-> TRUE, rows |-> << >>]
             ELSE [ok |-> f.exc = "none", rows |-> f.rows]

LookupChrs   == { 1, 2, 3 }
LookupStarts == { 0 - 1, 0, 3 }
LookupEnds   == { 0, 2, 6 }

\* outcome of the call before this one: none, a miss or a hit
PrevOutcome ==
    IF ret = NoRet THEN "none"
    ELSE IF ret.rows = << >> THEN "miss" ELSE "hit"

\* Index.query_genes -> Genome.query_genes
QueryGenes ==
    /\ pc = "serving"
    /\ calls < MaxCalls + 1
    /\ calls' = calls + 1
    /\ \E g \in Genomes, chrom \in LookupChrs,
          start \in LookupStarts, end \in LookupEnds :
         LET q == query_rows(tabix[g].gene, chrom, start, end)
         IN  ret' = [op |-> "query_genes", g |-> g, chrom |-> chrom,
                     start |-> start, end |-> end, ok |-> q.ok,
                     rows |-> q.rows, prev |-> PrevOutcome]
    /\ UNCHANGED << ngenomes, lowres_step, kmc_dbs, kmc, sizes, offsets, gene_df,
                    presence, bitmaps, bitmap_lens, bin_occs, pc, blocks,
                    handle, gzi, rd, fds, inits, disk, pool, tabix >>

\* Index.query_anno -> Genome.query_anno
QueryAnno ==
    /\ pc = "serving"
    /\ calls < MaxCalls + 1
    /\ calls' = calls + 1
    /\ \E g \in Genomes, chrom \in LookupChrs,
          start \in LookupStarts, end \in LookupEnds :
         LET q == query_rows(tabix[g].anno, chrom, start, end)
         IN  ret' = [op |-> "query_anno", g |-> g, chrom |-> chrom,
                     start |-> start, end |-> end, ok |-> q.ok,
                     rows |-> q.rows, prev |-> PrevOutcome]
    /\ UNCHANGED << ngenomes, lowres_step, kmc_dbs, kmc, sizes, offsets, gene_df,
                    presence, bitmaps, bitmap_lens, bin_occs, pc, blocks,
                    handle, gzi, rd, fds, inits, disk, pool, tabix >>

\* Index.close: Genome.close of every genome
IndexClose ==
    /\ pc = "serving"
    /\ fds' = [g \in Genomes |-> close_bitmaps(fds[g])]
    /\ pc' = "shut"
    /\ UNCHANGED << SessionFrame, ret, inits, tabix >>

NextSession ==
    \/ OpenIndex
    \/ Reclaim
    \/ QueryGenes
    \/ QueryAnno
    \/ IndexClose

SpecSession == InitSession /\ [][NextSession]_vars

(* ---------------------------- Index.write ----------------------------- *)
(* The anchoring loop of Index.write over the samples of the index, every *)
(* one an anchor genome.  pool.cores is params["cores"]; pool.g[i] is the *)
(* task of sample i: whether the sample table names a GFF for it, and how *)
(* far its Index.run_anchor got; pool.outq are the finished tasks whose   *)
(* result the loop has not taken yet; pool.raised are the genomes whose   *)
(* failure left Index.write as an exception.                              *)
MaxSamples == 3     \* samples of the index being written
MaxCores   == 2     \* params["cores"]

InitWrite ==
    \E n \in 1 .. MaxSamples, c \in 1 .. MaxCores :
      \E gffs \in [1 .. n -> BOOLEAN] :
        /\ ngenomes = n
        /\ lowres_step = 2
        /\ kmc_dbs = 1
        /\ kmc = "rot"
        /\ sizes = << >>
        /\ offsets = << >>
        /\ gene_df = << >>
        /\ presence = << >>
        /\ bitmaps = << >>
        /\ bitmap_lens = << >>
        /\ bin_occs = << >>
        /\ pc = "anchoring"
        /\ blocks = << >>
        /\ handle = << >>
        /\ ret = NoRet
        /\ gzi = << >>
        /\ calls = 0
        /\ rd = << >>
        /\ fds = << >>
        /\ inits = << >>
        /\ disk = << >>
        /\ pool = [cores |-> c,
                   g |-> [i \in 1 .. n |-> [gff |-> gffs[i], st |-> "pending"]],
                   outq |-> << >>,
                   raised |-> << >>]
        /\ tabix = << >>

WriteFrame == << ngenomes, lowres_step, kmc_dbs, kmc, sizes, offsets, gene_df,
                 presence, bitmaps, bitmap_lens, bin_occs, blocks, handle,
                 ret, gzi, calls, rd, fds, inits, disk, tabix >>

\* outcome of Index.run_anchor on sample i: Genome.run_anchor raises when
\* the sample has no GFF (init_gff returns None, gene_df.groupby fails)
anchor_outcome(i) == IF pool.g[i].gff THEN "anchored" ELSE "failed"

\* tasks with status st
TasksIn(st) == { i \in DOMAIN pool.g : pool.g[i].st = st }

\* cores = 1: the next sample of iter_anchor_args is anchored in the loop;
\* an exception of run_anchor leaves the loop and Index.write
AnchorNext ==
    /\ pc = "anchoring"
    /\ pool.cores = 1
    /\ TasksIn("pending") # {}
    /\ LET i == CHOOSE j \in TasksIn("pending") :
                    \A k \in TasksIn("pending") : j <= k
           o == anchor_outcome(i)
       IN  /\ pool' = [pool EXCEPT
                         !.g[i].st = o,
                         !.raised = IF o = "failed" THEN Append(@, i) ELSE @]
           /\ pc' = IF o = "failed" THEN "aborted" ELSE "anchoring"
    /\ UNCHANGED WriteFrame

\* cores > 1: a free worker of the pool takes the next task submitted
PoolStart ==
    /\ pc = "anchoring"
    /\ pool.cores > 1
    /\ TasksIn("pending") # {}
    /\ Cardinality(TasksIn("running")) < pool.cores
    /\ LET i == CHOOSE j \in TasksIn("pending") :
                    \A k \in TasksIn("pending") : j <= k
       IN  pool' = [pool EXCEPT !.g[i].st = "running"]
    /\ UNCHANGED << WriteFrame, pc >>

\* a worker finishes Index.run_anchor of its task; the result, or the
\* exception, is queued for the loop
PoolFinish ==
    /\ pc = "anchoring"
    /\ \E i \in TasksIn("running") :
         pool' = [pool EXCEPT !.g[i].st = anchor_outcome(i),
                              !.outq = Append(@, i)]
    /\ UNCHANGED << WriteFrame, pc >>

\* the loop over pool.imap_unordered takes the next finished result; the
\* exception of a failed task is raised there, leaves the loop, and the
\* with-block terminates the pool: running tasks are killed, pending ones
\* never start
PoolYield ==
    /\ pc = "anchoring"
    /\ pool.cores > 1
    /\ pool.outq # << >>
    /\ LET i == Head(pool.outq)
       IN  IF pool.g[i].st = "failed"
           THEN /\ pool' = [pool EXCEPT
                              !.outq = Tail(@),
                              !.raised = Append(@, i),
                              !.g = [j \in DOMAIN pool.g |->
                                        IF pool.g[j].st = "running"
                                        THEN [pool.g[j] EXCEPT !.st = "killed"]
                                        ELSE pool.g[j]]]
                /\ pc' = "aborted"
           ELSE /\ pool' = [pool EXCEPT !.outq = Tail(@)]
                /\ pc' = "anchoring"
    /\ UNCHANGED WriteFrame

\* the loop ends without an exception: Index.write goes on to the
\* chromosome summaries
AnchoringDone ==
    /\ pc = "anchoring"
    /\ TasksIn("pending") = {} /\ TasksIn("running") = {}
    /\ pool.outq = << >>
    /\ pc' = "summaries"
    /\ UNCHANGED << WriteFrame, pool >>

NextWrite ==
    \/ AnchorNext
    \/ PoolStart
    \/ PoolFinish
    \/ PoolYield
    \/ AnchoringDone

SpecWrite == InitWrite /\ [][NextWrite]_vars

(* ------------------------------ claims -------------------------------- *)
\* the presence bits of a set of genomes, in genome order
Bits(P) == [g \in 1 .. ngenomes |-> IF (g - 1) \in P THEN 1 ELSE 0]

\* start and end of the call ret reports, with the defaults filled in
RetStart == IF ret.start = None THEN 0 ELSE ret.start[1]
RetEnd   == IF ret.end = None THEN seq_len(ret.name) ELSE ret.end[1]

\* C1: round trip.  Once the genome is anchored and opened, for every
\* chromosome c, every stored step s and every position pos of c that is a
\* multiple of s, the one row read from the step-s stream at row offset
\* offsets[c][s] + pos // s unpacks to the presence bits packed for pos.
C1_RoundTrip ==
    pc = "read" =>
        \A c \in 1 .. Len(sizes) : \A s \in StepKeys :
            \A pos \in 0 .. (Len(presence[c]) - 1) :
                pos % s = 0 =>
                    LET qb == query_bytes(handle[s], c, pos, pos + s, s, s)
                    IN  /\ qb.ok
                        /\ bytes_to_bits(qb.pac) = << Bits(presence[c][pos + 1]) >>

\* C2: bounds.  A query with start > end or with end beyond the length of
\* the chromosome fails; it returns no matrix.
C2_Bounds ==
    (pc = "read" /\ ret.op = "query") =>
        ((RetStart > RetEnd \/ RetEnd > seq_len(ret.name)) => ~ret.ok)

\* C3: resolution consistency.  For every chromosome c, every end within
\* it and every step s, query(c, 0, end, s) returns the rows at positions
\* 0, s, 2s, ... (< end) of query(c, 0, end, 1).
C3_ResolutionConsistency ==
    pc = "read" =>
        \A c \in 1 .. Len(sizes) : \A e \in 0 .. sizes[c] :
            \A s \in QuerySteps \cup StepKeys :
                LET d == query(c, Some(0), Some(e), s)
                    f == query(c, Some(0), Some(e), 1)
                IN  d.ok /\ f.ok /\ d.val = Slice(f.val, s)

\* the coarsest stored step that divides step
CoarsestStored(step) ==
    CHOOSE b \in StepKeys :
        /\ step % b = 0
        /\ \A b2 \in StepKeys : step % b2 = 0 => b2 <= b

\* C4: resolution selection.  A query for step reads the stream of the
\* coarsest stored step bstep that divides step, from the row the request
\* starts at, and returns every (step // bstep)-th row read, the first one
\* included.  With stored steps {1, 10} a request for step 3 is read from
\* the step-1 stream: it fails only where the same request at step 1
\* fails, and returns every third row of what that request returns.
C4_ResolutionSelection ==
    (pc = "read" /\ ret.op = "query") =>
        LET b    == CoarsestStored(ret.step)
            k    == ret.step \div b
            from == nbytes * (offsets[ret.name][b] + (RetStart \div b))
            fine == query(ret.name, ret.start, ret.end, 1)
        IN  /\ ret.bstep = b
            /\ ret.ok =>
                   /\ Flatten(ret.raw) =
                          Range(bitmaps[b], from, from + nbytes * Len(ret.raw))
                   /\ Len(ret.val) = CeilDiv(Len(ret.raw), k)
                   /\ \A i \in 1 .. Len(ret.val) :
                          ret.val[i] = UnpackRow(ret.raw[(i - 1) * k + 1])
            /\ (StepKeys = { 1, 10 } /\ ret.step = 3) =>
                   /\ ret.bstep = 1
                   /\ ret.ok = fine.ok
                   /\ ret.ok => ret.val = Slice(fine.val, 3)

\* C4, witness: with stored steps {1, 10} a request for step 3 over four
\* positions has returned two rows, the first and the fourth one read
C4_Witness ==
    /\ pc = "read" /\ ret.op = "query" /\ ret.ok
    /\ StepKeys = { 1, 10 } /\ ret.step = 3 /\ ret.bstep = 1
    /\ Len(ret.raw) = 4 /\ Len(ret.val) = 2
    /\ ret.val[2] = UnpackRow(ret.raw[4])
    /\ ret.val[2] # ret.val[1]

\* C5: row width.  Every row _write_bitmap appends to a stream is nbytes =
\* ceil(ngenomes/8) bytes wide: a stream of n rows holds n * nbytes bytes.
C5_RowWidth ==
    \A s \in DOMAIN bitmaps : Len(bitmaps[s]) = bitmap_lens[s] * nbytes

\* value of histogram h at k (0 where h has no entry k)
At(h, k) == IF k \in DOMAIN h THEN h[k] ELSE 0

\* the row sums of positions [a, b) of chromosome c read at step 1
OccsOf(c, a, b) == bitsum_of(query(c, Some(a), Some(b), 1).val)

\* C6: zero-count exclusion.  A row with no bit set is counted in no entry
\* of a tabulation: Index.bitsum_count counts in entry k the rows with k
\* bits, Genome.bitsum_count has no entry 0, every bin entry k counts the
\* rows of the bin with k bits.
C6_ZeroExcluded ==
    /\ (pc = "read" /\ ret.op = "chr_counts" /\ ret.ok) =>
           \A k \in 1 .. ngenomes :
               ret.val[k] = CountOf(OccsOf(ret.name, 0, sizes[ret.name]), k)
    /\ (pc = "read" /\ ret.op = "query_occ_counts" /\ ret.ok) =>
           0 \notin DOMAIN ret.val
    /\ \A c \in 1 .. Len(bin_occs) : \A b \in 1 .. Len(bin_occs[c]) :
           \A k \in 1 .. ngenomes :
               bin_occs[c][b][k] =
                   Cardinality({ p \in ((b - 1) * ChrBinLen) .. (b * ChrBinLen - 1) :
                                   /\ p < Len(presence[c])
                                   /\ SumSeq(UnpackRow(arrs(1, presence[c])[p + 1])) = k })

\* C7: additivity.  For every chromosome, every range [a, c) in it and
\* every split point b, the histogram of [a, c) at step 1 is the sum of
\* the histograms of [a, b) and [b, c), for Index.bitsum_count and for
\* Genome.query_occ_counts.
C7_Additivity ==
    pc = "read" =>
        \A n \in 1 .. Len(sizes) : \A a \in 0 .. sizes[n] :
            \A b \in a .. sizes[n] : \A c \in b .. sizes[n] :
                (/\ query(n, Some(a), Some(c), 1).ok
                 /\ query(n, Some(a), Some(b), 1).ok
                 /\ query(n, Some(b), Some(c), 1).ok) =>
                    \A k \in 0 .. ngenomes :
                        /\ At(index_bitsum_count(OccsOf(n, a, c)), k) =
                               At(index_bitsum_count(OccsOf(n, a, b)), k)
                               + At(index_bitsum_count(OccsOf(n, b, c)), k)
                        /\ At(bitsum_count(OccsOf(n, a, c)), k) =
                               At(bitsum_count(OccsOf(n, a, b)), k)
                               + At(bitsum_count(OccsOf(n, b, c)), k)

\* sum of the entries of a histogram
RECURSIVE HistSum(_, _)
HistSum(h, ks) ==
    IF ks = {} THEN 0
    ELSE LET k == CHOOSE x \in ks : TRUE IN h[k] + HistSum(h, ks \ {k})

\* C8: histogram bounds.  A histogram has entries for counts in 1..G only
\* and its entries sum to the number of positions summarized; the
\* histogram of a whole chromosome at step 1 sums to its length.
C8_HistogramBounds ==
    /\ (pc = "read" /\ ret.op = "query_occ_counts" /\ ret.ok) =>
           /\ DOMAIN ret.val \subseteq 1 .. ngenomes
           /\ HistSum(ret.val, DOMAIN ret.val) =
                  Len(query(ret.name, ret.start, ret.end, ret.step).val)
    /\ (pc = "read" /\ ret.op = "chr_counts" /\ ret.ok) =>
           /\ DOMAIN ret.val \subseteq 1 .. ngenomes
           /\ HistSum(ret.val, DOMAIN ret.val) = sizes[ret.name]

\* C9: per-gene histogram.  After run_anchor, the histogram of every gene
\* [start, end) of chromosome c counts in entry k the positions of the
\* interval whose presence row has exactly k genomes.
C9_GeneHistogram ==
    pc \in { "closed", "read", "released" } =>
        \A g \in 1 .. Len(gene_df) : \A k \in 1 .. ngenomes :
            gene_df[g].hist[k] =
                Cardinality({ p \in gene_df[g].start .. (gene_df[g].end - 1) :
                                /\ gene_df[g].chr <= Len(presence)
                                /\ p < Len(presence[gene_df[g].chr])
                                /\ Cardinality(presence[gene_df[g].chr][p + 1]) = k })

\* log[i], log[i+1], log[i+2] are seek(r), seek(o), read(r) on one decoder
Interleaved(r, o) ==
    \E i \in 1 .. (Len(rd.log) - 2) :
        /\ rd.log[i] = [ev |-> "seek", r |-> r, b |-> rd.q[r].bstep, ok |-> TRUE]
        /\ rd.log[i + 1] = [ev |-> "seek", r |-> o, b |-> rd.q[r].bstep, ok |-> TRUE]
        /\ rd.log[i + 2].ev = "read" /\ rd.log[i + 2].r = r

\* C10: shared-handle concurrency.  With serialized access to the shared
\* decoders, or with decoders of its own for every reader, every finished
\* query has the outcome of the same query run alone and its rows are the
\* bytes of its own range, in every order of the readers' steps.  On the
\* shared decoders, after seek(q1), seek(q2), read(q1) the bytes q1 got
\* are those starting at the position q2 sought.
C10_SharedHandle ==
    pc = "read" =>
        \A r \in Readers :
            rd.q[r].stage = "done" =>
                LET me   == rd.q[r]
                    own  == query(me.name, Some(me.start), Some(me.end), me.step)
                    mine == byte_start(me.name, me.start, me.bstep)
                    n    == nbytes * Len(me.raw)
                IN  /\ rd.mode \in { "serial", "own" } =>
                           /\ me.ok = own.ok
                           /\ me.val = own.val
                           /\ me.ok => /\ me.from = mine
                                       /\ Flatten(me.raw) =
                                              Range(bitmaps[me.bstep], mine, mine + n)
                    /\ \A o \in Readers \ { r } :
                           (rd.mode = "shared" /\ Interleaved(r, o)) =>
                               /\ me.from = rd.q[o].sought
                               /\ me.ok => Flatten(me.raw) =
                                               Range(bitmaps[me.bstep],
                                                     rd.q[o].sought,
                                                     rd.q[o].sought + n)

\* C10, witness: on the shared decoders reader 1 has finished a query that
\* reader 2's seek interrupted, and holds rows that are not those of its range
C10_Witness ==
    /\ pc = "read" /\ rd.mode = "shared"
    /\ rd.q[1].stage = "done" /\ rd.q[1].ok
    /\ Interleaved(1, 2)
    /\ rd.q[1].from = rd.q[2].sought
    /\ rd.q[1].from # rd.q[1].sought
    /\ rd.q[1].val #
           query(rd.q[1].name, Some(rd.q[1].start), Some(rd.q[1].end),
                 rd.q[1].step).val

\* handles of genome g on step s that are open
OpenOn(g, s) == { i \in 1 .. Len(fds[g]) : fds[g][i].open /\ fds[g][i].step = s }

\* C11: read-session lifecycle.  Opening the index in read mode runs
\* init_read once on every genome and leaves one open decoder handle per
\* (genome, step); after Index.close no handle opened on the way into read
\* mode is open.
C11_Lifecycle ==
    /\ pc \in { "serving", "shut" } => \A g \in Genomes : inits[g] = 1
    /\ pc = "serving" =>
           \A g \in Genomes : \A s \in StepKeys : Cardinality(OpenOn(g, s)) = 1
    /\ pc = "shut" =>
           \A g \in Genomes : \A i \in 1 .. Len(fds[g]) : ~fds[g][i].open

\* samples whose anchoring fails
Failing == { i \in DOMAIN pool.g : anchor_outcome(i) = "failed" }

\* C12: build failure reporting.  When the anchoring of two or more
\* genomes fails, Index.write reports every failed genome, and every
\* genome whose anchoring does not fail is anchored.
C12_FailuresCollected ==
    (pc \in { "aborted", "summaries" } /\ Cardinality(Failing) >= 2) =>
        /\ { pool.raised[k] : k \in 1 .. Len(pool.raised) } = Failing
        /\ \A i \in DOMAIN pool.g \ Failing : pool.g[i].st = "anchored"

\* C14: empty range.  For every chromosome, every start within it and
\* every step, query(chrom, start, start, step) raises nothing and returns
\* a matrix with no rows.
C14_EmptyRange ==
    pc = "read" =>
        \A c \in 1 .. Len(sizes) : \A start \in 0 .. sizes[c] :
            \A step \in QuerySteps :
                LET q == query(c, Some(start), Some(start), step)
                IN  q.ok /\ q.val = << >>

\* the interval file the call ret reports was made on
RetFile == IF ret.op = "query_genes" THEN tabix[ret.g].gene ELSE tabix[ret.g].anno

\* the call ret reports is a lookup miss: no file was loaded, the interval
\* source rejects the chromosome or the range, or no row overlaps the range
LookupMiss ==
    \/ RetFile = None
    \/ ret.start < 0 \/ ret.end < 0 \/ ret.start > ret.end
    \/ \A i \in 1 .. Len(RetFile[1]) : RetFile[1][i].chr # ret.chrom
    \/ \A i \in 1 .. Len(RetFile[1]) :
           \/ RetFile[1][i].chr # ret.chrom
           \/ RetFile[1][i].start > ret.end
           \/ RetFile[1][i].end <= ret.start

\* C15: lookup miss.  query_genes and query_anno raise nothing and return
\* no rows when no interval file was loaded, when the interval source
\* rejects the chromosome or the range, and when no row overlaps; this
\* holds for a call made after a miss as for a first call, and the rows a
\* call returns are rows of the requested chromosome.
C15_LookupMiss ==
    (pc = "serving" /\ ret # NoRet) =>
        /\ ret.ok
        /\ LookupMiss => ret.rows = << >>
        /\ \A i \in 1 .. Len(ret.rows) : ret.rows[i].chr = ret.chrom

\* C15, witness: after a call that missed, a call with a range the
\* interval source rejects has returned no rows and no error
C15_Witness ==
    /\ pc = "serving" /\ ret # NoRet
    /\ ret.op = "query_genes" /\ ret.prev = "miss"
    /\ RetFile # None
    /\ tabix_fetch(RetFile[1], ret.chrom, ret.start, ret.end).exc = "ValueError"
    /\ ret.ok /\ ret.rows = << >>

\* the five presence rows of the scenario, columns in genome order
ScenarioMatrix ==
    << << 1, 1, 1 >>, << 1, 1, 0 >>, << 1, 0, 0 >>, << 0, 1, 1 >>, << 1, 1, 1 >> >>

\* the rows written, the stream of step 1 is complete
Written == pc \in { "closed", "read", "released" }

C17_OffsetConsistency ==
    (pc = "fasta" /\ Len(presence) < Len(sizes)) =>
        \A s \in StepKeys :
            offsets[Len(presence) + 1][s] = bitmap_lens[s]

\* C18: block lookup.  The block index load_bgz_blocks returns starts with
\* the entry (0, 0) and increases in both fields; for every byte offset b
\* inside a stream the entry _query_bytes selects is the last one whose
\* dstart is at most b (so an offset equal to a dstart selects that
\* entry), and b - dstart is at least 0 and less than the decompressed
\* size of the selected block.
C18_BlockLookup ==
    pc = "read" =>
        \A s \in StepKeys :
            LET blks == blocks[s]
                fb   == FileBlocks(bitmaps[s])
            IN  /\ blks[1] = [rstart |-> 0, dstart |-> 0]
                /\ \A i \in 2 .. Len(blks) :
                       /\ blks[i - 1].rstart < blks[i].rstart
                       /\ blks[i - 1].dstart < blks[i].dstart
                /\ \A b \in 0 .. (Len(bitmaps[s]) - 1) :
                       LET i == searchsorted(blks, b)
                       IN  /\ i \in 0 .. (Len(blks) - 1)
                           /\ PyAt(blks, i).dstart <= b
                           /\ \A j \in 1 .. Len(blks) :
                                  blks[j].dstart <= b => j <= i + 1
                           /\ \A j \in 1 .. Len(blks) :
                                  blks[j].dstart = b => j = i + 1
                           /\ b - PyAt(blks, i).dstart >= 0
                           /\ fb[i + 1].rstart = PyAt(blks, i).rstart
                           /\ b - PyAt(blks, i).dstart < fb[i + 1].len

\* C18, witness: a query whose first byte is the first byte of the second
\* block of its stream has been served
C18_Witness ==
    /\ pc = "read" /\ ret.op = "query" /\ ret.ok
    /\ Len(ret.val) > 0
    /\ Len(blocks[ret.bstep]) > 2
    /\ byte_start(ret.name, RetStart, ret.bstep) = blocks[ret.bstep][2].dstart
    /\ seek_target(ret.name, RetStart, ret.bstep) =
           [blk_start |-> blocks[ret.bstep][2].rstart, blk_offs |-> 0]

\* the steps whose block index has been built
Indexed == { gzi[i].step : i \in 1 .. Len(gzi) }

\* the writer self.bitmaps holds for step s: the last one opened for it
WriterOf(s) ==
    LET w == { i \in 1 .. Len(fds[1]) :
                   fds[1][i].mode = "w" /\ fds[1][i].step = s }
    IN  fds[1][CHOOSE i \in w : \A j \in w : j <= i]

\* C19: finalization order.  The block index of a step is built only
\* after the rows of every chromosome were written, the writer of the step
\* was closed and the chromosome table was persisted, and the stream of a
\* step is never written again once its index is built.
C19_FinalizationOrder ==
    /\ [](\A s \in Indexed :
            /\ Len(presence) = Len(sizes)
            /\ bitmap_lens[s] =
                   SumSeq([c \in 1 .. Len(sizes) |-> Len(arrs(s, presence[c]))])
            /\ ~WriterOf(s).open
            /\ \E k \in 1 .. Len(disk) : disk[k] = "chrs")
    /\ [][\A s \in Indexed :
            /\ bitmaps'[s] = bitmaps[s]
            /\ bitmap_lens'[s] = bitmap_lens[s]]_vars

\* C19, witness: two chromosomes with rows were written and the index of
\* every step has been built
C19_Witness ==
    /\ pc = "closed"
    /\ Len(gzi) = Len(steps)
    /\ Len(presence) = 2
    /\ \A c \in 1 .. 2 : Len(presence[c]) > 0
    /\ \A s \in StepKeys : Len(bitmaps[s]) > 0

\* the bytes WriteChrom appended to the stream of step s for chromosome c:
\* from lo (included) to hi (excluded)
ChromBytes(c, s) ==
    LET lo == SumSeq([i \in 1 .. (c - 1) |-> Len(Flatten(arrs(s, presence[i])))])
    IN  [lo |-> lo, hi |-> lo + Len(Flatten(arrs(s, presence[c])))]

\* C20: chromosome containment.  For every chromosome c of length L, every
\* request 0 <= start <= end <= L and every step, the rows _query_bytes
\* reads from the stream of bstep, offsets[c][bstep] + start // bstep up to
\* that plus (end - start) // bstep, lie inside the rows of c in the offset
\* table, and the bytes a served query returns are bytes written for c.
C20_Containment ==
    /\ pc = "read" =>
           \A c \in 1 .. Len(sizes) : \A step \in QuerySteps :
               \A start \in 0 .. sizes[c] : \A end \in start .. sizes[c] :
                   LET bstep == query_bstep(step)
                       lo    == offsets[c][bstep] + (start \div bstep)
                       hi    == lo + row_length(start, end, bstep)
                   IN  /\ offsets[c][bstep] <= lo
                       /\ lo <= hi
                       /\ hi <= offsets[c][bstep] + CeilDiv(sizes[c], bstep)
    /\ (/\ pc = "read" /\ ret.op = "query" /\ ret.ok
        /\ 0 <= RetStart /\ RetStart <= RetEnd /\ RetEnd <= sizes[ret.name]
        /\ Len(ret.raw) > 0) =>
           LET b  == byte_start(ret.name, RetStart, ret.bstep)
               cb == ChromBytes(ret.name, ret.bstep)
           IN  /\ cb.lo <= b
               /\ b + nbytes * Len(ret.raw) <= cb.hi

====
